---- MODULE Spec2Model ----
(***************************************************************************)
(* Model of jmetal/component/critical_distance.py: NemenyiCD, ranks and    *)
(* CDplot with its inner function _join_alg.                               *)
(*                                                                         *)
(* Number representation.  The program works on floating-point numbers;    *)
(* the model keeps every real of the state as an exact integer count of a  *)
(* fixed unit:                                                             *)
(*   - a rank of the rank matrix is kept doubled (rank 1.5 is 3), since    *)
(*     ranks are multiples of 0.5;                                         *)
(*   - an average rank, the critical difference cd and the endpoints of a  *)
(*     clique are kept as multiples of 1/den.  In a run of CDplot den is   *)
(*     2 * num_dataset (a row mean of doubled ranks is the row sum over    *)
(*     2 * num_dataset); the value 1.0 is den itself.                      *)
(* A significance level alpha is kept in hundredths (0.05 is 5).           *)
(* Indices are 1-based here and 0-based in the program.                    *)
(***************************************************************************)
EXTENDS Integers, Sequences, FiniteSets, TLC

VARIABLES
    pc,            \* position of the call of CDplot, "raised" after an exception
    err,           \* the exception that ended the call, "none" otherwise
    results,       \* the argument results: [ndim, data], data the rows of a
                   \* 2-D array, or the one sequence of a 1-D array
    alpha,         \* the argument alpha, in hundredths
    den,           \* the unit 1/den of avranks, cd and the clique endpoints
    num_alg,       \* results.shape[0]
    num_dataset,   \* results.shape[1]
    alg_names,     \* alg_names[r]: the name of row r of results
    tukey_calls,   \* the calls of get_tukeyQcrit made so far: <<k, df, alpha>>
    cd,            \* the critical difference, 0 before it is computed
    rranks,        \* the rank matrix (doubled ranks), <<>> before it is computed
    avranks,       \* the average ranks, sorted ascending once computed
    indices,       \* the sorting permutation of the rows
    spoint,        \* the split point of the sorted algorithms
    leftalg,       \* avranks[:spoint]
    rightalg,      \* avranks[spoint:]
    rows,          \* ceil(num_alg / 2)
    highest,       \* highest shown rank (an integer rank, not scaled)
    lowest,        \* lowest shown rank (an integer rank, not scaled)
    ticks,         \* the major ticks drawn: [xi, div], x = sleft + lline*xi/div
    stems,         \* the algorithm lines drawn: [side, level, rank, name, div]
    nonsig,        \* the value returned by _join_alg: [ndim, rows]
    left_lines,    \* the first half of nonsig
    right_lines,   \* the second half of nonsig
    brackets       \* the clique lines drawn: [side, low, high, k, vdiv, div]

vars == <<pc, err, results, alpha, den, num_alg, num_dataset, alg_names,
          tukey_calls, cd, rranks, avranks, indices, spoint, leftalg, rightalg,
          rows, highest, lowest, ticks, stems, nonsig, left_lines, right_lines,
          brackets>>

(***************************************************************************)
(* Bounds of the model.                                                    *)
(***************************************************************************)
\* a results matrix has at most MaxCells cells (rows times columns)
MaxCells == 5
\* a score of the results matrix is one of 1..MaxVal
MaxVal == 3
\* the critical difference of a run of CDplot is one of 1..MaxCD units 1/den
MaxCD == 3
\* the clique grouper taken alone: at most MaxLen average ranks,
MaxLen == 4
\* each one of 1.0 .. 1.0 + MaxSpread/Resolution, in steps of 1/Resolution,
Resolution == 10
MaxSpread == 5
\* and a critical difference among 1/Resolution .. MaxCdJoin/Resolution
MaxCdJoin == 6

(***************************************************************************)
(* Arithmetic helpers.                                                     *)
(***************************************************************************)
\* .astype(np.uint8)
U8(x) == x % 256

\* np.floor(a / d) and np.ceil(a / d) for a >= 0, d > 0
Floor(a, d) == a \div d
Ceil(a, d) == (a + d - 1) \div d

SetMax(S) == CHOOSE x \in S : \A y \in S : y <= x
SetMin(S) == CHOOSE x \in S : \A y \in S : x <= y

\* np.round(n / 2.0): numpy rounds a half to the nearest even integer
RoundHalf(n) ==
    IF n % 2 = 0 THEN n \div 2
    ELSE IF (n \div 2) % 2 = 0 THEN n \div 2 ELSE (n \div 2) + 1

RECURSIVE SumSeq(_)
SumSeq(s) == IF s = <<>> THEN 0 ELSE Head(s) + SumSeq(Tail(s))

(***************************************************************************)
(* ranks(data)                                                             *)
(***************************************************************************)
\* data[:, j]
Column(data, j) == [i \in 1..Len(data) |-> data[i][j]]

\* (-1) * np.sort(-data[:, j]): the column sorted descending
RECURSIVE SortDesc(_)
SortDesc(col) ==
    IF col = <<>> THEN <<>>
    ELSE LET m == SetMax({col[p] : p \in 1..Len(col)})
             at == SetMin({p \in 1..Len(col) : col[p] = m})
         IN <<m>> \o SortDesc(SubSeq(col, 1, at - 1) \o SubSeq(col, at + 1, Len(col)))

\* np.unique(sorted, return_index=True): the index (0-based) of the first
\* occurrence of v in the sorted column
UniqueIndex(sorted, v) == SetMin({p \in 1..Len(sorted) : sorted[p] = v}) - 1

\* np.unique(sorted, return_counts=True): the number of occurrences of v
UniqueCount(sorted, v) == Cardinality({p \in 1..Len(sorted) : sorted[p] = v})

\* the body of the loop over i, doubled: ranks[i, j] = 1 + indices + 0.5 * (rep - 1)
RankNoTieShift(sorted, v) == 2 + 2 * UniqueIndex(sorted, v) + UniqueCount(sorted, v)
RankOf(sorted, v) == 2 + 2 * UniqueIndex(sorted, v) + (UniqueCount(sorted, v) - 1)

ranks(data) ==
    [i \in 1..Len(data) |->
        [j \in 1..Len(data[1]) |-> RankOf(SortDesc(Column(data, j)), data[i][j])]]

(***************************************************************************)
(* _join_alg(avranks, num_alg, cd)                                         *)
(***************************************************************************)
\* np.where(np.logical_and(avranks - avranks[i] > 0, avranks - avranks[i] < cd))[0]
ElementsClosed(av, i, c) ==
    {j \in 1..Len(av) : av[j] - av[i] > 0 /\ av[j] - av[i] <= c}
Elements(av, i, c) ==
    {j \in 1..Len(av) : av[j] - av[i] > 0 /\ av[j] - av[i] < c}

\* the row sets[i, :]: the initial -1 row, or [avranks[i], avranks[elements[-1]]].
\* Only the sign of the initial row is ever read.
PairNearest(av, i, c) ==
    IF Elements(av, i, c) # {}
    THEN <<av[i], av[SetMin(Elements(av, i, c))]>>
    ELSE <<-1, -1>>
PairOf(av, i, c) ==
    IF Elements(av, i, c) # {}
    THEN <<av[i], av[SetMax(Elements(av, i, c))]>>
    ELSE <<-1, -1>>

\* sets after the loop over range(num_alg)
AllPairs(av, n, c) == [i \in 1..n |-> PairOf(av, i, c)]

\* np.delete(sets, np.where(sets[:, 0] < 0)[0], axis=0)
DeleteNegative(sets) == SelectSeq(sets, LAMBDA s : ~(s[1] < 0))

\* the test of the grouping loop: sets[i - 1, 1] < sets[i, 1]
KeepPairLoose(prev, cur) == prev[2] <= cur[2]
KeepPair(prev, cur) == prev[2] < cur[2]

\* the grouping loop from index i on: the rows stacked under sets[0, :]
RECURSIVE Stacked(_, _)
Stacked(sets, i) ==
    IF i > Len(sets) THEN <<>>
    ELSE (IF KeepPair(sets[i - 1], sets[i]) THEN <<sets[i]>> ELSE <<>>)
         \o Stacked(sets, i + 1)

\* The value of _join_alg.  sets[0, :] of an array without rows raises
\* IndexError.  group stays the 1-D array sets[0, :], of shape (2,), until the
\* first np.vstack makes it 2-D: ndim tells which, rows are the pairs it holds.
JoinAlg(av, n, c) ==
    LET sets == DeleteNegative(AllPairs(av, n, c))
    IN IF Len(sets) = 0
       THEN [raised |-> "IndexError", ndim |-> 0, rows |-> <<>>]
       ELSE LET more == Stacked(sets, 2)
            IN [raised |-> "none",
                ndim |-> IF more = <<>> THEN 1 ELSE 2,
                rows |-> <<sets[1]>> \o more]

\* array.shape[0] of the value returned by _join_alg
Shape0(a) == IF a.ndim = 1 THEN 2 ELSE Len(a.rows)

(***************************************************************************)
(* CDplot(results, alpha, alg_names)                                       *)
(***************************************************************************)
\* the significance levels CDplot accepts: alpha in [0.01, 0.05]
ValidAlphaLoose(a) == a \in {1, 5, 10}
ValidAlpha(a) == a \in {1, 5}

\* the value of a variable the call has not assigned yet
NoArray == [ndim |-> 0, rows |-> <<>>]

\* the call ends with the exception e
Raise(e) == pc' = "raised" /\ err' = e

\* Initial Checking
InitialChecking ==
    /\ pc = "start"
    /\ IF ~ValidAlpha(alpha)
       THEN /\ Raise("Initialization ERROR: alpha must be 0.01 or 0.05")
            /\ UNCHANGED <<num_alg, num_dataset, alg_names, den>>
       ELSE IF results.ndim # 2
       THEN /\ Raise("Initialization ERROR: results must be 2-D array")
            /\ UNCHANGED <<num_alg, num_dataset, alg_names, den>>
       ELSE /\ num_alg' = Len(results.data)
            /\ num_dataset' = Len(results.data[1])
            /\ den' = 2 * Len(results.data[1])
            /\ alg_names' = [r \in 1..Len(results.data) |-> r]
            /\ pc' = "checked"
            /\ err' = err
    /\ UNCHANGED <<results, alpha, tukey_calls, cd, rranks, avranks, indices,
                   spoint, leftalg, rightalg, rows, highest, lowest, ticks,
                   stems, nonsig, left_lines, right_lines, brackets>>

\* get_tukeyQcrit(k, df, alpha) of statsmodels: a positive critical value, or
\* an exception when the table does not hold (k, df).  The critical difference
\* NemenyiCD derives from a positive critical value is a positive number: 0
\* stands for the exception, c > 0 for the critical difference c / den.
TukeyOutcomes == 0..MaxCD

\* cd = NemenyiCD(alpha, num_alg, num_dataset)
NemenyiCD ==
    /\ pc = "checked"
    /\ tukey_calls' = Append(tukey_calls,
                             <<num_alg, num_alg * (num_dataset - 1), alpha>>)
    /\ \E c \in TukeyOutcomes :
          IF c = 0
          THEN Raise("LookupFailure") /\ cd' = cd
          ELSE cd' = c /\ pc' = "cd" /\ err' = err
    /\ UNCHANGED <<results, alpha, den, num_alg, num_dataset, alg_names, rranks,
                   avranks, indices, spoint, leftalg, rightalg, rows, highest,
                   lowest, ticks, stems, nonsig, left_lines, right_lines,
                   brackets>>

\* rranks = ranks(results)
ComputeRanks ==
    /\ pc = "cd"
    /\ rranks' = ranks(results.data)
    /\ pc' = "ranks"
    /\ UNCHANGED <<err, results, alpha, den, num_alg, num_dataset, alg_names,
                   tukey_calls, cd, avranks, indices, spoint, leftalg, rightalg,
                   rows, highest, lowest, ticks, stems, nonsig, left_lines,
                   right_lines, brackets>>

\* np.mean(rranks, axis=1), in units of 1 / (2 * num_dataset)
RowMeans(rr) == [i \in 1..Len(rr) |-> SumSeq(rr[i])]

\* np.argsort(avranks): a permutation that sorts avranks ascending.  The
\* default sort kind is not stable, so rows of equal average rank come in any
\* order.
ArgSorts(av) ==
    {p \in Permutations(1..Len(av)) :
        \A i \in 1..Len(av) : \A j \in 1..Len(av) : i < j => av[p[i]] <= av[p[j]]}

\* spoint = np.round(num_alg / 2.0).astype(np.uint8)
SplitPoint(n) == U8(RoundHalf(n))

\* the ranking averages, the split of the algorithms and the figure settings
SortAndSplit ==
    /\ pc = "ranks"
    /\ \E p \in ArgSorts(RowMeans(rranks)) :
          /\ indices' = p
          /\ avranks' = [i \in 1..num_alg |-> RowMeans(rranks)[p[i]]]
    /\ spoint' = SplitPoint(num_alg)
    /\ leftalg' = SubSeq(avranks', 1, spoint')
    /\ rightalg' = SubSeq(avranks', spoint' + 1, num_alg)
    /\ rows' = U8(Ceil(num_alg, 2))
    /\ highest' = U8(Ceil(SetMax({avranks'[i] : i \in 1..num_alg}), den))
    /\ lowest' = U8(Floor(SetMin({avranks'[i] : i \in 1..num_alg}), den))
    /\ pc' = "split"
    /\ UNCHANGED <<err, results, alpha, den, num_alg, num_dataset, alg_names,
                   tukey_calls, cd, rranks, ticks, stems, nonsig, left_lines,
                   right_lines, brackets>>

\* Main horizontal axis: the tick xi is drawn at sleft + (lline * xi) / (highest
\* - lowest).  The divisor is a numpy integer: dividing by 0 raises nothing and
\* gives nan or inf.
MainAxis ==
    /\ pc = "split"
    /\ ticks' = [t \in 1..(U8(highest - lowest) + 1) |->
                    [xi |-> t - 1, div |-> U8(highest - lowest)]]
    /\ pc' = "axis"
    /\ UNCHANGED <<err, results, alpha, den, num_alg, num_dataset, alg_names,
                   tukey_calls, cd, rranks, avranks, indices, spoint, leftalg,
                   rightalg, rows, highest, lowest, stems, nonsig, left_lines,
                   right_lines, brackets>>

\* Plot lines/names for left models and for right models: the stem of an
\* algorithm stands at sleft + (lline * (rank - lowest)) / (highest - lowest),
\* its name alg_names[indices][...] beside it.
PlotModels ==
    /\ pc = "axis"
    /\ stems' =
          [i \in 1..spoint |->
              [side |-> "left", level |-> spoint - i, rank |-> leftalg[i],
               name |-> alg_names[indices[i]], div |-> U8(highest - lowest)]]
          \o
          [i \in 1..(num_alg - spoint) |->
              [side |-> "right", level |-> i - 1, rank |-> rightalg[i],
               name |-> alg_names[indices[spoint + i]],
               div |-> U8(highest - lowest)]]
    /\ pc' = "models"
    /\ UNCHANGED <<err, results, alpha, den, num_alg, num_dataset, alg_names,
                   tukey_calls, cd, rranks, avranks, indices, spoint, leftalg,
                   rightalg, rows, highest, lowest, ticks, nonsig, left_lines,
                   right_lines, brackets>>

\* nonsig = _join_alg(avranks, num_alg, cd)
GetNonsig ==
    /\ pc = "models"
    /\ LET r == JoinAlg(avranks, num_alg, cd)
       IN IF r.raised # "none"
          THEN Raise(r.raised) /\ nonsig' = nonsig
          ELSE /\ nonsig' = [ndim |-> r.ndim, rows |-> r.rows]
               /\ pc' = "nonsig"
               /\ err' = err
    /\ UNCHANGED <<results, alpha, den, num_alg, num_dataset, alg_names,
                   tukey_calls, cd, rranks, avranks, indices, spoint, leftalg,
                   rightalg, rows, highest, lowest, ticks, stems, left_lines,
                   right_lines, brackets>>

\* nonsig[:h, :], nonsig[h:, :] and the two plotting loops.  Two indices into a
\* 1-D array raise IndexError; the spacing of the right lines divides a Python
\* float by left_lines.shape[0], which raises ZeroDivisionError when it is 0.
\* The line k of a side is drawn at y = stop - k * 0.5 * (stop - sbottom) / vdiv.
PlotNonsig ==
    /\ pc = "nonsig"
    /\ LET h == U8(RoundHalf(Shape0(nonsig)))
           l == SubSeq(nonsig.rows, 1, h)
           r == SubSeq(nonsig.rows, h + 1, Len(nonsig.rows))
       IN IF nonsig.ndim # 2
          THEN /\ Raise("IndexError")
               /\ UNCHANGED <<left_lines, right_lines, brackets>>
          ELSE /\ left_lines' = l
               /\ right_lines' = r
               /\ IF Len(l) = 0
                  THEN /\ Raise("ZeroDivisionError")
                       /\ brackets' = brackets
                  ELSE /\ brackets' =
                             [i \in 1..Len(l) |->
                                [side |-> "left", low |-> l[i][1],
                                 high |-> l[i][2], k |-> i, vdiv |-> Len(l) + 1,
                                 div |-> U8(highest - lowest)]]
                             \o
                             [i \in 1..Len(r) |->
                                [side |-> "right", low |-> r[i][1],
                                 high |-> r[i][2], k |-> i, vdiv |-> Len(l),
                                 div |-> U8(highest - lowest)]]
                       /\ pc' = "done"
                       /\ err' = err
    /\ UNCHANGED <<results, alpha, den, num_alg, num_dataset, alg_names,
                   tukey_calls, cd, rranks, avranks, indices, spoint, leftalg,
                   rightalg, rows, highest, lowest, ticks, stems, nonsig>>

(***************************************************************************)
(* The calls of CDplot: every results argument within the bounds, 2-D or   *)
(* 1-D, and the significance levels 0.01, 0.05 and 0.1.                    *)
(***************************************************************************)
Shapes == {s \in (1..MaxCells) \X (1..MaxCells) : s[1] * s[2] <= MaxCells}

Matrices == UNION {[1..s[1] -> [1..s[2] -> 1..MaxVal]] : s \in Shapes}

Vectors == UNION {[1..n -> 1..MaxVal] : n \in 1..MaxCells}

InputResults ==
    {[ndim |-> 2, data |-> m] : m \in Matrices}
    \cup {[ndim |-> 1, data |-> <<v>>] : v \in Vectors}

Init ==
    /\ pc = "start"
    /\ err = "none"
    /\ results \in InputResults
    /\ alpha \in {1, 5, 10}
    /\ den = 1
    /\ num_alg = 0
    /\ num_dataset = 0
    /\ alg_names = <<>>
    /\ tukey_calls = <<>>
    /\ cd = 0
    /\ rranks = <<>>
    /\ avranks = <<>>
    /\ indices = <<>>
    /\ spoint = 0
    /\ leftalg = <<>>
    /\ rightalg = <<>>
    /\ rows = 0
    /\ highest = 0
    /\ lowest = 0
    /\ ticks = <<>>
    /\ stems = <<>>
    /\ nonsig = NoArray
    /\ left_lines = <<>>
    /\ right_lines = <<>>
    /\ brackets = <<>>

Next ==
    \/ InitialChecking
    \/ NemenyiCD
    \/ ComputeRanks
    \/ SortAndSplit
    \/ MainAxis
    \/ PlotModels
    \/ GetNonsig
    \/ PlotNonsig

Spec == Init /\ [][Next]_vars

(***************************************************************************)
(* The clique grouper taken alone: CDplot about to call _join_alg, with    *)
(* any ascending sequence of average ranks >= 1.0 and any cd > 0 within    *)
(* the bounds.                                                             *)
(***************************************************************************)
SortedRanks ==
    UNION {{a \in [1..n -> Resolution..(Resolution + MaxSpread)] :
              \A i \in 1..(n - 1) : a[i] <= a[i + 1]} : n \in 1..MaxLen}

InitJoin ==
    /\ pc = "models"
    /\ err = "none"
    /\ results = [ndim |-> 0, data |-> <<>>]
    /\ alpha = 5
    /\ den = Resolution
    /\ avranks \in SortedRanks
    /\ num_alg = Len(avranks)
    /\ num_dataset = 0
    /\ alg_names = <<>>
    /\ tukey_calls = <<>>
    /\ cd \in 1..MaxCdJoin
    /\ rranks = <<>>
    /\ indices = <<>>
    /\ spoint = SplitPoint(num_alg)
    /\ leftalg = SubSeq(avranks, 1, spoint)
    /\ rightalg = SubSeq(avranks, spoint + 1, num_alg)
    /\ rows = U8(Ceil(num_alg, 2))
    /\ highest = U8(Ceil(SetMax({avranks[i] : i \in 1..num_alg}), den))
    /\ lowest = U8(Floor(SetMin({avranks[i] : i \in 1..num_alg}), den))
    /\ ticks = <<>>
    /\ stems = <<>>
    /\ nonsig = NoArray
    /\ left_lines = <<>>
    /\ right_lines = <<>>
    /\ brackets = <<>>

NextJoin == GetNonsig \/ PlotNonsig

SpecJoin == InitJoin /\ [][NextJoin]_vars

(***************************************************************************)
(* Properties                                                              *)
(***************************************************************************)
\* the entries of column j strictly greater than, and equal to, the entry of row i
GreaterInColumn(i, j) ==
    Cardinality({r \in 1..Len(results.data) : results.data[r][j] > results.data[i][j]})
EqualInColumn(i, j) ==
    Cardinality({r \in 1..Len(results.data) : results.data[r][j] = results.data[i][j]})
TieFree(j) == \A i \in 1..Len(results.data) : EqualInColumn(i, j) = 1

\* C1: when ranks(results) returns, every entry of the rank matrix is
\* 1 + (entries of its column strictly greater) + 0.5 * (entries of its column
\* equal, minus 1), column by column (ranks are kept doubled); rows with equal
\* values in a column have the same rank, and a column without ties holds
\* exactly the ranks 1..k, rank 1 on the highest score.
C1_MidRanks ==
    pc = "ranks" =>
        /\ Len(rranks) = Len(results.data)
        /\ \A i \in 1..Len(rranks) :
              /\ Len(rranks[i]) = Len(results.data[1])
              /\ \A j \in 1..Len(rranks[i]) :
                    /\ rranks[i][j] = 2 + 2 * GreaterInColumn(i, j)
                                        + (EqualInColumn(i, j) - 1)
                    /\ \A r \in 1..Len(rranks) :
                          results.data[r][j] = results.data[i][j]
                              => rranks[r][j] = rranks[i][j]
        /\ \A j \in 1..Len(results.data[1]) :
              TieFree(j) =>
                  /\ {rranks[i][j] : i \in 1..Len(rranks)}
                        = {2 * r : r \in 1..Len(rranks)}
                  /\ \A i \in 1..Len(rranks) :
                        GreaterInColumn(i, j) = 0 => rranks[i][j] = 2

\* C1 witness: a rank matrix of at least two rows with a tied column and a
\* column without ties
C1_Witness ==
    /\ pc = "ranks"
    /\ Len(rranks) >= 2
    /\ \E j \in 1..Len(results.data[1]) : TieFree(j)
    /\ \E j \in 1..Len(results.data[1]) : ~TieFree(j)

\* the average rank x lies in the span of the clique c
InSpan(x, c) == c[1] <= x /\ x <= c[2]

\* _join_alg has returned
Returned == nonsig.ndim # 0

\* C2: every clique (low, high) returned by the grouper has 0 < high - low < cd,
\* so no two algorithms whose average ranks lie in one clique differ by cd or
\* more, and an algorithm of average rank 1.0 shares no clique with an
\* algorithm whose average rank exceeds 1.0 + cd.
C2_CliqueSpanBelowCD ==
    Returned =>
        \A n \in 1..Len(nonsig.rows) :
            LET c == nonsig.rows[n]
            IN /\ 0 < c[2] - c[1]
               /\ c[2] - c[1] < cd
               /\ \A i \in 1..num_alg : \A j \in 1..num_alg :
                     (InSpan(avranks[i], c) /\ InSpan(avranks[j], c))
                         => /\ avranks[j] - avranks[i] < cd
                            /\ ~(avranks[i] = den /\ avranks[j] > den + cd)

\* C2 witness: the grouper returned a clique holding an algorithm of average
\* rank 1.0 while another algorithm lies more than cd above 1.0
C2_Witness ==
    /\ Returned
    /\ \E n \in 1..Len(nonsig.rows) : \E i \in 1..num_alg : \E j \in 1..num_alg :
          /\ avranks[i] = den
          /\ InSpan(avranks[i], nonsig.rows[n])
          /\ avranks[j] > den + cd

\* no algorithm has a partner less than cd above it
NoEligible ==
    \A i \in 1..num_alg : \A j \in 1..num_alg :
        ~(0 < avranks[j] - avranks[i] /\ avranks[j] - avranks[i] < cd)

\* C3 (as claimed): when no algorithm has a partner j with
\* 0 < avranks[j] - avranks[i] < cd, the grouper returns the empty sequence of
\* cliques and does not fail.
C3_EmptyWhenNoPartner ==
    (NoEligible /\ pc # "models") =>
        /\ err = "none"
        /\ Returned
        /\ nonsig.rows = <<>>

\* C4 (as claimed): when all average ranks are identical the call surfaces a
\* DegenerateRange error, and no coordinate is computed by dividing by
\* highest - lowest = 0.  Stated for the tables of at least two algorithms, so
\* that a violation does not rest on a one-row table.
C4_DegenerateRangeSurfaced ==
    num_alg >= 2 =>
        /\ \A t \in 1..Len(ticks) : ticks[t].div # 0
        /\ \A t \in 1..Len(stems) : stems[t].div # 0
        /\ \A t \in 1..Len(brackets) : brackets[t].div # 0
        /\ (/\ avranks # <<>>
            /\ \A i \in 1..Len(avranks) : avranks[i] = avranks[1]
            /\ pc # "split")
               => err = "DegenerateRange"

\* C5: a call with alpha outside {0.01, 0.05} ends with the alpha error of the
\* initial checking, and never computes the critical difference, the ranks, the
\* average ranks or any element of the figure.
C5_AlphaRejectedFirst ==
    alpha \notin {1, 5} =>
        /\ pc \in {"start", "raised"}
        /\ pc = "raised" => err = "Initialization ERROR: alpha must be 0.01 or 0.05"
        /\ tukey_calls = <<>>
        /\ cd = 0
        /\ rranks = <<>>
        /\ avranks = <<>>
        /\ indices = <<>>
        /\ ticks = <<>>
        /\ stems = <<>>
        /\ nonsig = NoArray
        /\ brackets = <<>>

\* C5 witness: the call with alpha = 0.1 on a 2-D table has raised
C5_Witness ==
    /\ alpha = 10
    /\ results.ndim = 2
    /\ pc = "raised"

\* C6 (as claimed): with fewer than two algorithms the call fails at the
\* validation, before the Studentized-range lookup is attempted.
C6_OneAlgorithmRejected ==
    (results.ndim = 2 /\ Len(results.data) < 2) =>
        /\ pc \in {"start", "raised"}
        /\ tukey_calls = <<>>
        /\ pc = "raised" => err \in
              {"Initialization ERROR: alpha must be 0.01 or 0.05",
               "Initialization ERROR: results must be 2-D array",
               "InvalidArgument"}

\* C7 (as claimed): whenever the grouping yields m >= 1 cliques, the grouper
\* returns a sequence of m pairs (an m x 2 array), and the layout step splits
\* it by index into left lines followed by right lines that hold every clique
\* exactly once, each clique drawn as one line with a finite vertical offset.
C7_EveryCliqueDrawnOnce ==
    /\ Returned => nonsig.ndim = 2
    /\ (Returned /\ pc \notin {"models", "nonsig"}) =>
          /\ pc = "done"
          /\ left_lines \o right_lines = nonsig.rows
          /\ Len(brackets) = Len(nonsig.rows)
          /\ \A n \in 1..Len(brackets) :
                /\ brackets[n].low = nonsig.rows[n][1]
                /\ brackets[n].high = nonsig.rows[n][2]
                /\ brackets[n].vdiv # 0

\* the candidate cliques: for each algorithm i with a partner, in the order of
\* i, the pair of avranks[i] and the largest average rank less than cd above it
RECURSIVE CandidatesFrom(_)
CandidatesFrom(i) ==
    IF i > num_alg THEN <<>>
    ELSE LET P == {avranks[j] : j \in {k \in 1..num_alg :
                      0 < avranks[k] - avranks[i] /\ avranks[k] - avranks[i] < cd}}
         IN (IF P = {} THEN <<>> ELSE <<<<avranks[i], SetMax(P)>>>>)
            \o CandidatesFrom(i + 1)

\* the reference merge: keep the first candidate, then a candidate exactly
\* when its high endpoint exceeds the high endpoint of the last kept one
RECURSIVE MergeKept(_, _, _)
MergeKept(cands, i, kept) ==
    IF i > Len(cands) THEN kept
    ELSE IF kept = <<>> \/ kept[Len(kept)][2] < cands[i][2]
         THEN MergeKept(cands, i + 1, Append(kept, cands[i]))
         ELSE MergeKept(cands, i + 1, kept)

\* C8: with at least one candidate, the cliques the grouper returns are the
\* candidates the reference merge keeps (comparison against the previous kept
\* candidate), and their high endpoints are strictly increasing.
C8_MergeMatchesReference ==
    Returned =>
        /\ nonsig.rows = MergeKept(CandidatesFrom(1), 1, <<>>)
        /\ \A n \in 1..(Len(nonsig.rows) - 1) :
              nonsig.rows[n][2] < nonsig.rows[n + 1][2]

\* C8 witness: the grouper returned where a candidate follows a dropped one and
\* is kept, so the preceding candidate is not the previous kept one
C8_Witness ==
    /\ Returned
    /\ LET c == CandidatesFrom(1)
       IN \E i \in 3..Len(c) : c[i - 2][2] = c[i - 1][2] /\ c[i - 1][2] < c[i][2]

\* C10: every pair of algorithms i, j with 0 < avranks[j] - avranks[i] < cd
\* lies inside at least one returned clique.
C10_EveryClosePairCovered ==
    Returned =>
        \A i \in 1..num_alg : \A j \in 1..num_alg :
            (0 < avranks[j] - avranks[i] /\ avranks[j] - avranks[i] < cd)
                => \E n \in 1..Len(nonsig.rows) :
                      /\ nonsig.rows[n][1] <= avranks[i]
                      /\ avranks[j] <= nonsig.rows[n][2]

\* C10 witness: the grouper returned after dropping a candidate in the merge
C10_Witness ==
    /\ Returned
    /\ Len(nonsig.rows) < Len(CandidatesFrom(1))
    /\ Len(nonsig.rows) >= 2

\* C9 (as claimed): the left half holds ceil(k/2) algorithms, the best-ranked
\* ones, and the right half the other floor(k/2); left followed by right is
\* the whole sorted list, each name beside the average rank of its own row.
\* Stated for the tables of at least two algorithms, so that a violation does
\* not rest on a one-row table.
C9_LeftHalfIsCeiling ==
    (avranks # <<>> /\ num_alg >= 2) =>
        /\ Len(leftalg) = (num_alg + 1) \div 2
        /\ Len(rightalg) = num_alg \div 2
        /\ leftalg \o rightalg = avranks
        /\ \A i \in 1..(num_alg - 1) : avranks[i] <= avranks[i + 1]
        /\ stems # <<>> =>
              /\ Len(stems) = num_alg
              /\ \A t \in 1..Len(stems) :
                    /\ stems[t].rank = avranks[t]
                    /\ stems[t].rank = RowMeans(rranks)[stems[t].name]
                    /\ stems[t].side = (IF t <= (num_alg + 1) \div 2
                                        THEN "left" ELSE "right")
              /\ {stems[t].name : t \in 1..Len(stems)} = 1..num_alg

====
